---------------------------- MODULE Spec2Model ----------------------------
(***************************************************************************)
(* Semantic SQL query cache of MiniRedisDb (package command).              *)
(*                                                                         *)
(* Text is modelled as a sequence of symbols: a keyword, an identifier, a  *)
(* punctuation mark, a blank or a single digit is one symbol.  A string    *)
(* of the program is such a sequence, so trimming, suffix stripping,       *)
(* decimal parsing (strconv.Atoi) and decimal printing (%v) are computed   *)
(* on it as the code computes them on bytes.                               *)
(***************************************************************************)
EXTENDS Integers, Sequences, FiniteSets, TLC

(***************************************************************************)
(* Generic helpers on sequences.                                           *)
(***************************************************************************)
Range(s) == {s[i] : i \in DOMAIN s}

RECURSIVE SelectSeqIdx(_, _, _)
\* the indices i >= from of s with s[i] \in S, ascending
SelectSeqIdx(s, S, from) ==
    IF from > Len(s) THEN <<>>
    ELSE IF s[from] \in S THEN <<from>> \o SelectSeqIdx(s, S, from + 1)
    ELSE SelectSeqIdx(s, S, from + 1)

Min(S) == CHOOSE x \in S : \A y \in S : x <= y
Max(S) == CHOOSE x \in S : \A y \in S : x >= y

(***************************************************************************)
(* Values held by a Row (interface{} holding an int or a string).          *)
(***************************************************************************)
IntV(n) == [t |-> "int", i |-> n, s |-> ""]
StrV(x) == [t |-> "str", i |-> 0, s |-> x]

Digits == <<"0", "1", "2", "3", "4", "5", "6", "7", "8", "9">>
DigitSet == Range(Digits)
DigitVal(d) == (CHOOSE k \in DOMAIN Digits : Digits[k] = d) - 1

RECURSIVE DigitsToNat(_)
DigitsToNat(ds) ==
    IF Len(ds) = 0 THEN 0
    ELSE 10 * DigitsToNat(SubSeq(ds, 1, Len(ds) - 1)) + DigitVal(ds[Len(ds)])

RECURSIVE NatToDigits(_)
NatToDigits(n) ==
    IF n < 10 THEN <<Digits[n + 1]>>
    ELSE NatToDigits(n \div 10) \o <<Digits[(n % 10) + 1]>>

\* strconv.Atoi: an optional sign followed by one or more decimal digits
Atoi(txt) ==
    LET signed == Len(txt) > 0 /\ txt[1] \in {"+", "-"}
        body   == IF signed THEN Tail(txt) ELSE txt
    IN  IF Len(body) > 0 /\ Range(body) \subseteq DigitSet
        THEN [ok |-> TRUE,
              val |-> IF signed /\ txt[1] = "-" THEN 0 - DigitsToNat(body)
                      ELSE DigitsToNat(body)]
        ELSE [ok |-> FALSE, val |-> 0]

\* fmt.Sprintf("%v", val)
Sprint(v) ==
    IF v.t = "int"
    THEN IF v.i < 0 THEN <<"-">> \o NatToDigits(0 - v.i) ELSE NatToDigits(v.i)
    ELSE <<v.s>>

(***************************************************************************)
(* strings.TrimSpace, strings.Trim(s, "'\"")                               *)
(***************************************************************************)
RECURSIVE TrimLeft(_, _)
TrimLeft(s, cut) ==
    IF Len(s) > 0 /\ s[1] \in cut THEN TrimLeft(Tail(s), cut) ELSE s

RECURSIVE TrimRight(_, _)
TrimRight(s, cut) ==
    IF Len(s) > 0 /\ s[Len(s)] \in cut
    THEN TrimRight(SubSeq(s, 1, Len(s) - 1), cut) ELSE s

Trim(s, cut) == TrimRight(TrimLeft(s, cut), cut)
Blank == {" "}
TrimSpace(s) == Trim(s, Blank)
Quotes == {"'", "\""}


(***************************************************************************)
(* sql_parser.go                                                           *)
(***************************************************************************)
\* (?i) keywords of the two regular expressions
IsKw(sym, kw) ==
    \/ sym = kw
    \/ kw = "SELECT" /\ sym = "select"
    \/ kw = "FROM" /\ sym = "from"
    \/ kw = "WHERE" /\ sym = "where"

Operators == {"<", ">", "="}

\* An identifier of one symbol is that symbol; the model's tables and rows
\* name their tables and columns by single symbols, so a run of several
\* symbols names nothing.
Name(run) == IF Len(run) = 1 THEN run[1] ELSE IF Len(run) = 0 THEN "" ELSE "<run>"

\* \s+([^\s]+) followed by at least minTrail blanks, over the whole of seq
IdentShape(seq, minTrail) ==
    LET t == TrimLeft(seq, Blank)
        u == TrimRight(t, Blank)
    IN  /\ Len(seq) > Len(t)
        /\ Len(u) > 0
        /\ " " \notin Range(u)
        /\ Len(t) - Len(u) >= minTrail
IdentOf(seq) == Name(TrimSpace(seq))

\* \s+([^\s]+) at the start of seq: the blanks, then the maximal run
IdentPrefix(seq) ==
    LET t    == TrimLeft(seq, Blank)
        stop == SelectSeqIdx(t, Blank, 1)
        run  == IF Len(stop) = 0 THEN t ELSE SubSeq(t, 1, stop[1] - 1)
    IN  [ok |-> Len(seq) > Len(t) /\ Len(run) > 0, name |-> Name(run)]

\* SELECT\s+(.+)\s+ up to the keyword at index f
ColsShape(text, s, f) ==
    /\ f - s >= 4
    /\ text[s + 1] = " "
    /\ text[f - 1] = " "

RECURSIVE SplitComma(_, _)
\* strings.Split(s, ","), each piece read as a name; cur is the piece so far
SplitComma(s, cur) ==
    IF Len(s) = 0 THEN <<Name(cur)>>
    ELSE IF s[1] = "," THEN <<Name(cur)>> \o SplitComma(Tail(s), <<>>)
    ELSE SplitComma(Tail(s), Append(cur, s[1]))

\* strings.ReplaceAll(s, " ", "")
RemoveBlanks(s) == SelectSeq(s, LAMBDA x : x # " ")

SelectColumnsOf(group) ==
    LET colStr == TrimSpace(group)
    IN  IF colStr = <<"*">> THEN <<"*">>
        ELSE SplitComma(RemoveBlanks(colStr), <<>>)

KwIdx(text, kw) == {i \in DOMAIN text : IsKw(text[i], kw)}
OpIdx(text) == {i \in DOMAIN text : text[i] \in Operators}

\* the matches <<s, f, w, o>> of sqlRegex in text: the positions of SELECT,
\* FROM, WHERE and the operator
WhereMatches(text) ==
    {m \in KwIdx(text, "SELECT") \X KwIdx(text, "FROM")
             \X KwIdx(text, "WHERE") \X OpIdx(text) :
        /\ m[1] < m[2] /\ m[2] < m[3] /\ m[3] < m[4] /\ m[4] < Len(text)
        /\ ColsShape(text, m[1], m[2])
        /\ IdentShape(SubSeq(text, m[2] + 1, m[3] - 1), 1)
        /\ IdentShape(SubSeq(text, m[3] + 1, m[4] - 1), 0)}

\* leftmost-first: the first SELECT, then the longest column group, then
\* the longest column identifier
BestWhereMatch(text) ==
    LET M  == WhereMatches(text)
        s  == Min({m[1] : m \in M})
        f  == Max({m[2] : m \in {x \in M : x[1] = s}})
        o  == Max({m[4] : m \in {x \in M : x[1] = s /\ x[2] = f}})
    IN  CHOOSE m \in M : m[1] = s /\ m[2] = f /\ m[4] = o

NoWhereMatches(text) ==
    {m \in KwIdx(text, "SELECT") \X KwIdx(text, "FROM") :
        /\ m[1] < m[2]
        /\ ColsShape(text, m[1], m[2])
        /\ IdentPrefix(SubSeq(text, m[2] + 1, Len(text))).ok}

BestNoWhereMatch(text) ==
    LET M == NoWhereMatches(text)
        s == Min({m[1] : m \in M})
        f == Max({m[2] : m \in {x \in M : x[1] = s}})
    IN  <<s, f>>

NoWhere == [Column |-> "", Operator |-> "", Value |-> <<>>, present |-> FALSE]

ParseError == <<"ERR invalid or unsupported SQL query format">>

ParseSQL(raw) ==
    LET trimmed == TrimSpace(raw)
        input   == IF Len(trimmed) > 0 /\ trimmed[Len(trimmed)] = ";"
                   THEN SubSeq(trimmed, 1, Len(trimmed) - 1) ELSE trimmed
    IN  IF WhereMatches(input) # {}
        THEN LET m == BestWhereMatch(input)
             IN  [err |-> <<>>,
                  OriginalString |-> input,
                  SelectColumns |->
                      SelectColumnsOf(SubSeq(input, m[1] + 1, m[2] - 1)),
                  FromTable |-> IdentOf(SubSeq(input, m[2] + 1, m[3] - 1)),
                  Where |-> [Column |-> IdentOf(SubSeq(input, m[3] + 1, m[4] - 1)),
                             Operator |-> input[m[4]],
                             Value |-> Trim(TrimSpace(
                                 SubSeq(input, m[4] + 1, Len(input))), Quotes),
                             present |-> TRUE]]
        ELSE IF NoWhereMatches(input) # {}
        THEN LET m == BestNoWhereMatch(input)
             IN  [err |-> <<>>,
                  OriginalString |-> input,
                  SelectColumns |->
                      SelectColumnsOf(SubSeq(input, m[1] + 1, m[2] - 1)),
                  FromTable |->
                      IdentPrefix(SubSeq(input, m[2] + 1, Len(input))).name,
                  Where |-> NoWhere]
        ELSE [err |-> ParseError,
              OriginalString |-> input,
              SelectColumns |-> <<>>,
              FromTable |-> "",
              Where |-> NoWhere]

\* WhereCondition.GetAsInt
GetAsInt(wc) == Atoi(wc.Value)

(***************************************************************************)
(* sql_storage.go: rows, tables and the backing database                   *)
(***************************************************************************)
\* a Row (map[string]interface{}) with the columns cols holding vals
MkRow(cols, vals) ==
    [c \in Range(cols) |-> vals[CHOOSE k \in DOMAIN cols : cols[k] = c]]

MkTable(name, cols, rows) ==
    [Name |-> name, Columns |-> cols,
     Rows |-> [k \in DOMAIN rows |-> MkRow(cols, rows[k])]]

UsersColumns == <<"id", "name", "age">>
UsersRows == <<
    <<IntV(1), StrV("Alice"), IntV(31)>>,
    <<IntV(2), StrV("Bob"), IntV(45)>>,
    <<IntV(3), StrV("Charlie"), IntV(55)>>,
    <<IntV(4), StrV("David"), IntV(25)>>,
    <<IntV(5), StrV("Eve"), IntV(60)>>,
    <<IntV(6), StrV("Frank"), IntV(42)>>,
    <<IntV(7), StrV("Grace"), IntV(97)>>,
    <<IntV(8), StrV("Heidi"), IntV(83)>>,
    <<IntV(9), StrV("Ivan"), IntV(76)>>,
    <<IntV(10), StrV("Judy"), IntV(64)>>,
    <<IntV(11), StrV("Karl"), IntV(19)>>,
    <<IntV(12), StrV("Laura"), IntV(8)>>,
    <<IntV(13), StrV("Mike"), IntV(91)>>,
    <<IntV(14), StrV("Nina"), IntV(92)>>,
    <<IntV(15), StrV("Oscar"), IntV(88)>> >>

ProductsColumns == <<"id", "item", "stock">>
ProductsRows == <<
    <<IntV(101), StrV("apple"), IntV(500)>>,
    <<IntV(102), StrV("banana"), IntV(200)>>,
    <<IntV(103), StrV("orange"), IntV(350)>> >>

ServerLogsColumns == <<"id", "server_name", "cpu_load", "status">>
ServerLogsRows == <<
    <<IntV(1001), StrV("web-01"), IntV(25), StrV("OK")>>,
    <<IntV(1002), StrV("web-02"), IntV(82), StrV("WARNING")>>,
    <<IntV(1003), StrV("db-01"), IntV(91), StrV("WARNING")>>,
    <<IntV(1004), StrV("api-01"), IntV(75), StrV("OK")>>,
    <<IntV(1005), StrV("web-01"), IntV(30), StrV("OK")>>,
    <<IntV(1006), StrV("web-03"), IntV(85), StrV("WARNING")>>,
    <<IntV(1007), StrV("api-02"), IntV(96), StrV("ERROR")>>,
    <<IntV(1008), StrV("db-01"), IntV(92), StrV("WARNING")>>,
    <<IntV(1009), StrV("web-02"), IntV(88), StrV("WARNING")>>,
    <<IntV(1010), StrV("cache-01"), IntV(15), StrV("OK")>>,
    <<IntV(1011), StrV("web-01"), IntV(40), StrV("OK")>>,
    <<IntV(1012), StrV("api-01"), IntV(81), StrV("WARNING")>>,
    <<IntV(1013), StrV("db-02"), IntV(99), StrV("ERROR")>>,
    <<IntV(1014), StrV("web-03"), IntV(89), StrV("WARNING")>> >>

\* InitBackingDB; the map's keys are its DOMAIN
BackingDatabase ==
    [n \in {"users", "products", "server_logs"} |->
        CASE n = "users" -> MkTable("users", UsersColumns, UsersRows)
          [] n = "products" -> MkTable("products", ProductsColumns, ProductsRows)
          [] n = "server_logs" ->
                MkTable("server_logs", ServerLogsColumns, ServerLogsRows)]

(***************************************************************************)
(* The evaluator and the subsumption test (SQL handler file)               *)
(***************************************************************************)
\* checkCondition
checkCondition(row, cond) ==
    IF ~cond.present THEN TRUE
    ELSE IF cond.Column \notin DOMAIN row THEN FALSE
    ELSE LET val  == row[cond.Column]
             c    == GetAsInt(cond)
         IN  IF c.ok /\ val.t = "int" /\ cond.Operator \in Operators
             THEN CASE cond.Operator = ">" -> val.i > c.val
                    [] cond.Operator = "<" -> val.i < c.val
                    [] cond.Operator = "=" -> val.i = c.val
             ELSE IF cond.Operator = "=" THEN Sprint(val) = cond.Value
             ELSE FALSE

\* the projection loop of executeOnBackingStore
ProjectRow(row, cols) ==
    IF cols[1] = "*" THEN row
    ELSE [c \in Range(cols) \cap DOMAIN row |-> row[c]]

\* executeOnBackingStore
executeOnBackingStore(query) ==
    IF query.FromTable \notin DOMAIN BackingDatabase
    THEN [err |-> <<"table '", query.FromTable, "' not found">>,
          table |-> [Name |-> "", Columns |-> <<>>, Rows |-> <<>>]]
    ELSE LET table      == BackingDatabase[query.FromTable]
             resultRows == SelectSeq(table.Rows,
                               LAMBDA r : checkCondition(r, query.Where))
             finalRows  == [k \in DOMAIN resultRows |->
                               ProjectRow(resultRows[k], query.SelectColumns)]
             finalCols  == IF query.SelectColumns[1] = "*" THEN table.Columns
                           ELSE query.SelectColumns
         IN  [err |-> <<>>,
              table |-> [Name |-> "results", Columns |-> finalCols,
                         Rows |-> finalRows]]

\* isConditionSubset
isConditionSubset(newCond, cachedCond) ==
    IF ~cachedCond.present THEN TRUE
    ELSE IF ~newCond.present THEN FALSE
    ELSE IF newCond.Column # cachedCond.Column THEN FALSE
    ELSE LET n == GetAsInt(newCond)
             c == GetAsInt(cachedCond)
         IN  IF n.ok /\ c.ok /\ newCond.Operator = ">" /\ cachedCond.Operator = ">"
             THEN n.val >= c.val
             ELSE IF n.ok /\ c.ok /\ newCond.Operator = "<" /\ cachedCond.Operator = "<"
             THEN n.val <= c.val
             ELSE IF n.ok /\ c.ok /\ newCond.Operator = "=" /\ cachedCond.Operator = ">"
             THEN n.val > c.val
             ELSE IF n.ok /\ c.ok /\ newCond.Operator = "=" /\ cachedCond.Operator = "<"
             THEN n.val < c.val
             ELSE IF newCond.Operator = "=" /\ cachedCond.Operator = "="
             THEN newCond.Value = cachedCond.Value
             ELSE FALSE

\* isQuerySubset
isQuerySubset(newQuery, cachedQuery) ==
    IF newQuery.FromTable # cachedQuery.FromTable THEN FALSE
    ELSE IF /\ cachedQuery.SelectColumns[1] # "*"
            /\ \E k \in DOMAIN newQuery.SelectColumns :
                  /\ newQuery.SelectColumns[k] # "*"
                  /\ newQuery.SelectColumns[k] \notin Range(cachedQuery.SelectColumns)
    THEN FALSE
    ELSE isConditionSubset(newQuery.Where, cachedQuery.Where)

\* filterResultsFromSuperset
filterResultsFromSuperset(superset, newCondition) ==
    IF ~newCondition.present THEN superset
    ELSE [Name |-> "filtered_results",
          Columns |-> superset.Columns,
          Rows |-> SelectSeq(superset.Rows,
                       LAMBDA r : checkCondition(r, newCondition))]

\* formatResults: the nil bulk string for no rows, else the header of the
\* table's columns, one line per row with the %v rendering of row[col]
\* (<nil> for a column the row lacks) and the row count
NilBulk == [kind |-> "nil", header |-> <<>>, lines |-> <<>>, count |-> 0, msg |-> <<>>]
formatResults(table) ==
    IF Len(table.Rows) = 0 THEN NilBulk
    ELSE [kind |-> "bulk",
          header |-> table.Columns,
          lines |-> [k \in DOMAIN table.Rows |->
                       [j \in DOMAIN table.Columns |->
                          IF table.Columns[j] \in DOMAIN table.Rows[k]
                          THEN Sprint(table.Rows[k][table.Columns[j]])
                          ELSE <<"<nil>">>]],
          count |-> Len(table.Rows),
          msg |-> <<>>]

\* "-ERR <message>\r\n"
ErrResp(message) ==
    [kind |-> "err", header |-> <<>>, lines |-> <<>>, count |-> 0, msg |-> message]

(***************************************************************************)
(* Query texts sent by clients, written symbol by symbol.                  *)
(***************************************************************************)
RECURSIVE ColList(_)
\* "a, b, c"
ColList(cols) ==
    IF Len(cols) = 1 THEN <<cols[1]>>
    ELSE <<cols[1], ",", " ">> \o ColList(Tail(cols))

\* "SELECT <cols> FROM <table>"
Sel(cols, table) == <<"SELECT", " ">> \o ColList(cols) \o <<" ", "FROM", " ", table>>

\* "SELECT <cols> FROM <table> WHERE <col> <op> <val>"
SelW(cols, table, col, op, val) ==
    Sel(cols, table) \o <<" ", "WHERE", " ", col, " ", op, " ">> \o val

(***************************************************************************)
(* The request buffer handed to a handler: the parts that                  *)
(* strings.Split(input, "\r\n") yields, each a text.                       *)
(***************************************************************************)
\* "*2\r\n$3\r\nSQL\r\n$<len>\r\n<query>\r\n"
RespSQL(query) == << <<"*2">>, <<"$3">>, <<"SQL">>, <<"$len">>, query, <<>> >>
\* the query alone on a line
Inline(query) == <<query, <<>>>>

Contains(text, sym) == sym \in Range(text)
EqualFoldSQL(text) == text \in {<<"SQL">>, <<"sql">>, <<"Sql">>}
EqualFoldSQLSTATS(text) == text \in {<<"SQLSTATS">>, <<"sqlstats">>}

\* extractSQLQuery
extractSQLQuery(parts) ==
    IF /\ Len(parts) > 4
       /\ (EqualFoldSQL(parts[3]) \/ Contains(parts[5], "SELECT"))
       /\ Contains(parts[5], "SELECT")
    THEN parts[5]
    ELSE IF \E k \in DOMAIN parts : Contains(parts[k], "SELECT")
    THEN \* the first SELECT of strings.ToUpper(input), up to the next "\r\n"
         LET k   == Min({j \in DOMAIN parts : KwIdx(parts[j], "SELECT") # {}})
             idx == Min(KwIdx(parts[k], "SELECT"))
         IN  TrimSpace(SubSeq(parts[k], idx, Len(parts[k])))
    ELSE IF Len(parts) > 4 /\ EqualFoldSQL(parts[3])
    THEN parts[5]
    ELSE IF \/ Len(parts) >= 3 /\ EqualFoldSQLSTATS(parts[3])
            \/ \E k \in DOMAIN parts : \E j \in DOMAIN parts[k] :
                  <<parts[k][j]>> \in {<<"SQLSTATS">>, <<"sqlstats">>}
    THEN <<"SQLSTATS">>
    ELSE <<>>

(***************************************************************************)
(* State.                                                                  *)
(*   entries   SemanticCache.entries: the list, front first, of elements   *)
(*   heap      the *list.Element objects alive (in the list, in lookup or  *)
(*             held by a handler), each with its CacheEntry                *)
(*   lookup    SemanticCache.lookup: query string -> element               *)
(*   totalQueries, directHits, semanticHits, cacheMisses   the counters    *)
(*   muReaders the handlers holding SemanticCache.mu for reading           *)
(*   pc, sql, held, found   per connection: position in HandleSQL, its     *)
(*             sqlQueryString, the entry Get returned, the table           *)
(*             FindSemanticHit returned                                    *)
(*   wire      what the latest step wrote to its connection                *)
(*   log       the responses written so far (recorded by some workloads)   *)
(*   load      the workload driving the server                             *)
(***************************************************************************)
VARIABLES entries, heap, lookup,
          totalQueries, directHits, semanticHits, cacheMisses,
          muReaders, pc, sql, held, found, wire, log, load, GraphStore

vars == <<entries, heap, lookup, totalQueries, directHits, semanticHits,
          cacheMisses, muReaders, pc, sql, held, found, wire, log, load,
          GraphStore>>

Conns == {"c1", "c2"}

CACHE_MAX_SIZE == 5

NoElem == 0
NoTable == [Name |-> "", Columns |-> <<>>, Rows |-> <<>>]
NoWrite == [conn |-> "", sql |-> <<>>, kind |-> "none", resp |-> NilBulk]

(***************************************************************************)
(* container/list and the map                                              *)
(***************************************************************************)
\* List.MoveToFront: nothing happens for an element that was removed
MoveToFront(l, e) ==
    IF e \in Range(l) THEN <<e>> \o SelectSeq(l, LAMBDA x : x # e) ELSE l

\* List.Remove(List.Back())
RemoveBack(l) == SubSeq(l, 1, Len(l) - 1)

\* delete(m, k)
Delete(m, k) == [x \in (DOMAIN m) \ {k} |-> m[x]]

\* m[k] = v
Put(m, k, v) == [x \in (DOMAIN m) \cup {k} |-> IF x = k THEN v ELSE m[x]]

\* a new object: an identity no live element has
NewElem(h) == Min((1..(Cardinality(DOMAIN h) + 1)) \ DOMAIN h)

\* time.Now(): later than every Timestamp stored so far
Now(h) == IF DOMAIN h = {} THEN 1 ELSE 1 + Max({h[e].Timestamp : e \in DOMAIN h})

\* The objects the collector keeps are those reachable from the list, the
\* map or a handler's local variable.  Objects have no address in the
\* model: each is named by the rank of its Timestamp among the live ones
\* (no two objects share a Timestamp, Now being later than all of them),
\* and Timestamps are kept up to their order.  Collect renames the cache
\* [entries, heap, lookup] and the handlers' references hd accordingly.
Collect(cache, hd) ==
    LET live  == (Range(cache.entries)
                    \cup {cache.lookup[k] : k \in DOMAIN cache.lookup}
                    \cup {hd[c] : c \in DOMAIN hd}) \cap DOMAIN cache.heap
        rank(e) == Cardinality({x \in live :
                      cache.heap[x].Timestamp <= cache.heap[e].Timestamp})
        at(i) == CHOOSE e \in live : rank(e) = i
        ref(e) == IF e \in live THEN rank(e) ELSE NoElem
    IN  [entries |-> [k \in DOMAIN cache.entries |-> rank(cache.entries[k])],
         heap |-> [i \in 1..Cardinality(live) |->
                     [cache.heap[at(i)] EXCEPT !.Timestamp = i]],
         lookup |-> [k \in DOMAIN cache.lookup |-> rank(cache.lookup[k])],
         held |-> [c \in DOMAIN hd |-> ref(hd[c])]]

(***************************************************************************)
(* SemanticCache methods, as functions of the cache [entries, heap, lookup]*)
(***************************************************************************)
\* SemanticCache.Get: the hit flag, the element, the cache afterwards
Get(cache, queryString) ==
    IF queryString \in DOMAIN cache.lookup
    THEN LET e == cache.lookup[queryString]
         IN  [hit |-> TRUE, elem |-> e,
              entries |-> MoveToFront(cache.entries, e),
              heap |-> [cache.heap EXCEPT ![e].Timestamp = Now(cache.heap)],
              lookup |-> cache.lookup]
    ELSE [hit |-> FALSE, elem |-> NoElem,
          entries |-> cache.entries, heap |-> cache.heap,
          lookup |-> cache.lookup]

\* an eviction test that lets the list grow one entry past maxSize
CacheIsFull_Late(l, maxSize) == Len(l) > maxSize

\* the eviction test of AddToCache
CacheIsFull(l, maxSize) == Len(l) >= maxSize

\* the key AddToCache deletes from lookup on eviction
EvictedKey(lruEntry) == lruEntry.Query.OriginalString

\* an AddToCache that links the new element into the list but does not
\* record it in lookup
AddToCache_NoIndex(cache, queryString, query, results) ==
    IF queryString \in DOMAIN cache.lookup
    THEN LET e == cache.lookup[queryString]
         IN  [entries |-> MoveToFront(cache.entries, e),
              heap |-> [cache.heap EXCEPT ![e].Results = results,
                                          ![e].Timestamp = Now(cache.heap)],
              lookup |-> cache.lookup]
    ELSE LET evict == CacheIsFull(cache.entries, CACHE_MAX_SIZE)
                      /\ Len(cache.entries) > 0
             lru   == cache.entries[Len(cache.entries)]
             l1    == IF evict THEN RemoveBack(cache.entries) ELSE cache.entries
             m1    == IF evict THEN Delete(cache.lookup, EvictedKey(cache.heap[lru]))
                      ELSE cache.lookup
             e     == NewElem(cache.heap)
             entry == [Query |-> query, Results |-> results,
                       Timestamp |-> Now(cache.heap)]
         IN  [entries |-> <<e>> \o l1,
              heap |-> Put(cache.heap, e, entry),
              lookup |-> m1]

\* SemanticCache.AddToCache
AddToCache(cache, queryString, query, results) ==
    IF queryString \in DOMAIN cache.lookup
    THEN LET e == cache.lookup[queryString]
         IN  [entries |-> MoveToFront(cache.entries, e),
              heap |-> [cache.heap EXCEPT ![e].Results = results,
                                          ![e].Timestamp = Now(cache.heap)],
              lookup |-> cache.lookup]
    ELSE LET evict == CacheIsFull(cache.entries, CACHE_MAX_SIZE)
                      /\ Len(cache.entries) > 0
             lru   == cache.entries[Len(cache.entries)]
             l1    == IF evict THEN RemoveBack(cache.entries) ELSE cache.entries
             m1    == IF evict THEN Delete(cache.lookup, EvictedKey(cache.heap[lru]))
                      ELSE cache.lookup
             e     == NewElem(cache.heap)
             entry == [Query |-> query, Results |-> results,
                       Timestamp |-> Now(cache.heap)]
         IN  [entries |-> <<e>> \o l1,
              heap |-> Put(cache.heap, e, entry),
              lookup |-> Put(m1, queryString, e)]

\* a scan in which the last superset of newQuery, front to back, wins
FirstSuperset_Last(cache, newQuery) ==
    LET hits == {k \in DOMAIN cache.entries :
                    isQuerySubset(newQuery, cache.heap[cache.entries[k]].Query)}
    IN  IF hits = {} THEN 0 ELSE Max(hits)

\* the position in the list of the first entry, front to back, whose query
\* is a superset of newQuery; 0 if there is none
FirstSuperset(cache, newQuery) ==
    LET hits == {k \in DOMAIN cache.entries :
                    isQuerySubset(newQuery, cache.heap[cache.entries[k]].Query)}
    IN  IF hits = {} THEN 0 ELSE Min(hits)

\* a FindSemanticHit that keeps the filtered rows in the entry it hit
FindSemanticHit_InPlace(cache, newQuery) ==
    LET k == FirstSuperset(cache, newQuery)
    IN  IF k = 0
        THEN [hit |-> FALSE, elem |-> NoElem, results |-> NoTable,
              heap |-> cache.heap]
        ELSE LET e == cache.entries[k]
                 filtered == filterResultsFromSuperset(cache.heap[e].Results,
                                                       newQuery.Where)
             IN  [hit |-> TRUE, elem |-> e, results |-> filtered,
                  heap |-> [cache.heap EXCEPT ![e].Results = filtered,
                                              ![e].Timestamp = Now(cache.heap)]]

\* SemanticCache.FindSemanticHit
FindSemanticHit(cache, newQuery) ==
    LET k == FirstSuperset(cache, newQuery)
    IN  IF k = 0
        THEN [hit |-> FALSE, elem |-> NoElem, results |-> NoTable,
              heap |-> cache.heap]
        ELSE LET e == cache.entries[k]
             IN  [hit |-> TRUE, elem |-> e,
                  results |-> filterResultsFromSuperset(cache.heap[e].Results,
                                                        newQuery.Where),
                  heap |-> [cache.heap EXCEPT ![e].Timestamp = Now(cache.heap)]]

\* SemanticCache.GetCacheStats: the numbers the report prints
GetCacheStats ==
    [kind |-> "stats",
     header |-> <<>>,
     lines |-> <<>>,
     count |-> 0,
     msg |-> <<totalQueries, directHits + semanticHits, directHits,
               semanticHits, cacheMisses, Len(entries), CACHE_MAX_SIZE>>]

(***************************************************************************)
(* Workloads: the query texts clients send and how many requests.          *)
(***************************************************************************)
UsersOver40 == SelW(<<"*">>, "users", "age", ">", <<"4", "0">>)
NameOver50 == SelW(<<"name">>, "users", "age", ">", <<"5", "0">>)
NameAgeOver90 == SelW(<<"name", "age">>, "users", "age", ">", <<"9", "0">>)
LogsOver80 == SelW(<<"*">>, "server_logs", "cpu_load", ">", <<"8", "0">>)
LogsOver95 == SelW(<<"server_name", "cpu_load", "status">>, "server_logs",
                   "cpu_load", ">", <<"9", "5">>)
AfterBob == SelW(<<"*">>, "users", "name", ">", <<"Bob">>)
AfterBobSemi == AfterBob \o <<";">>
Products == Sel(<<"*">>, "products")
LowStock == SelW(<<"item">>, "products", "stock", "<", <<"3", "0", "0">>)
LogErrors == SelW(<<"status">>, "server_logs", "status", "=", <<"'", "ERROR", "'">>)
LogWarnings == SelW(<<"server_name">>, "server_logs", "status", "=",
                    <<"'", "WARNING", "'">>)
Orders == Sel(<<"*">>, "orders")
NoFrom == <<"SELECT", " ", "name">>
NoQuery == <<>>

\* concurrent connections
TextsConc == {UsersOver40, UsersOver40 \o <<";">>, NameOver50}
\* filling the cache past its capacity
TextsFill == {AfterBobSemi, AfterBob, LowStock, Products, LogsOver80,
              LogsOver95, LogErrors, LogWarnings}
\* the scenarios of the demonstration script and of the specification
TextsScript == {UsersOver40, NameOver50, NameAgeOver90, LogsOver80,
                LogsOver95, Orders, NoFrom, NoQuery}
\* after a request that stayed in its miss path while the cache turned over
TextsLate == {AfterBobSemi, LogsOver95, LowStock}
\* a cached query and a new one, over projections, operators and literals
PairCols == {<<"*">>, <<"name">>, <<"name", "age">>}
PairValues == {<<"4", "0">>, <<"0", "4", "0">>, <<"5", "0">>}
TextsPair ==
    {Sel(cols, "users") : cols \in PairCols}
    \cup {SelW(x[1], "users", "age", x[2], x[3]) :
             x \in PairCols \X Operators \X PairValues}
    \cup {SelW(cols, "users", "name", "=", <<"Eve">>) : cols \in PairCols}
    \cup {SelW(cols, "users", "name", ">", <<"Bob">>) : cols \in PairCols}

MaxConc == 3
MaxFill == 2
MaxScript == 4
MaxPair == 2
MaxLate == 1

Workloads == {"conc", "fill", "script", "pair", "late"}
TextsOf(w) ==
    CASE w = "conc" -> TextsConc
      [] w = "fill" -> TextsFill
      [] w = "script" -> TextsScript
      [] w = "pair" -> TextsPair
      [] w = "late" -> TextsLate
MaxRequests(w) ==
    CASE w = "conc" -> MaxConc
      [] w = "fill" -> MaxFill
      [] w = "script" -> MaxScript
      [] w = "pair" -> MaxPair
      [] w = "late" -> MaxLate
\* the requests a workload starts with, one after the other, before its
\* clients choose freely
Warmup(w) ==
    IF w = "fill"
    THEN <<AfterBobSemi, LowStock, Products, LogsOver80, LogErrors>>
    ELSE IF w = "late"
    THEN <<AfterBobSemi, AfterBobSemi, LowStock, Products, LogsOver80,
           LogErrors, LogWarnings>>
    ELSE <<>>
\* the workloads whose requests, past the warm-up, do not overlap
OneAtATime(w) == w \in {"script", "pair"}
\* the connections that may send request number n of workload w: the
\* warm-up comes from c1, except that in "late" c1 sends the first request
\* only and c2 the rest of the warm-up, whether or not c1 has been answered
SendersOf(w, n) ==
    IF w = "late" /\ n <= Len(Warmup(w))
    THEN IF n = 1 THEN {"c1"} ELSE {"c2"}
    ELSE IF OneAtATime(w) \/ n <= Len(Warmup(w)) THEN {"c1"}
    ELSE Conns
\* the workloads whose responses are recorded
Logged(w) == w \in {"script", "pair"}

AllTexts == TextsConc \cup TextsFill \cup TextsScript \cup TextsPair
            \cup TextsLate
\* ParseSQL of every text a client sends, computed once
AST == [t \in AllTexts |-> ParseSQL(t)]

\* the request buffers a client of workload w may send as request number n
InputsOf(w, n) ==
    IF n <= Len(Warmup(w)) THEN {RespSQL(Warmup(w)[n])}
    ELSE {RespSQL(t) : t \in TextsOf(w)}
         \cup (IF w = "script" THEN {Inline(UsersOver40)} ELSE {})

Parse(text) == IF text \in AllTexts THEN AST[text] ELSE ParseSQL(text)

Cache == [entries |-> entries, heap |-> heap, lookup |-> lookup]

(***************************************************************************)
(* The graph store: GraphStore maps a node to the set of its neighbours.   *)
(***************************************************************************)
\* addEdge: both directions, creating a node's set when it has none
addEdge(g, node1, node2) ==
    LET g1 == IF node1 \in DOMAIN g THEN g ELSE g @@ (node1 :> {})
        g2 == [g1 EXCEPT ![node1] = @ \cup {node2}]
        g3 == IF node2 \in DOMAIN g2 THEN g2 ELSE g2 @@ (node2 :> {})
    IN  [g3 EXCEPT ![node2] = @ \cup {node1}]

\* the edges InitGraphDB adds, in its order
InitialEdges ==
    << <<"Alice", "Bob">>, <<"Alice", "Charlie">>, <<"Bob", "David">>,
       <<"Charlie", "Eve">>, <<"David", "Frank">>, <<"Eve", "Grace">> >>

RECURSIVE AddEdges(_, _)
AddEdges(g, edges) ==
    IF edges = <<>> THEN g
    ELSE AddEdges(addEdge(g, edges[1][1], edges[1][2]), Tail(edges))

\* InitGraphDB: the empty map, then the hardcoded edges
InitGraphDB == AddEdges(<<>>, InitialEdges)

\* "+OK\r\n"
OkResp == [kind |-> "ok", header |-> <<>>, lines |-> <<>>, count |-> 0, msg |-> <<>>]

\* formatSetAsRespArray: "*0\r\n" for the empty set, else the count and one
\* bulk string per key, in the order the range over the map yields them,
\* which is any order
formatSetAsRespArray(set) ==
    {[kind |-> "array", header |-> <<>>, lines |-> order,
      count |-> Cardinality(set), msg |-> <<>>] :
        order \in {o \in [1..Cardinality(set) -> set] : Range(o) = set}}

(***************************************************************************)
(* Init: InitSQLCache, every connection waiting for a request.             *)
(***************************************************************************)
InitLoad(w) ==
    /\ entries = <<>>
    /\ heap = <<>>
    /\ lookup = <<>>
    /\ totalQueries = 0
    /\ directHits = 0
    /\ semanticHits = 0
    /\ cacheMisses = 0
    /\ muReaders = {}
    /\ pc = [c \in Conns |-> "idle"]
    /\ sql = [c \in Conns |-> <<>>]
    /\ held = [c \in Conns |-> NoElem]
    /\ found = [c \in Conns |-> NoTable]
    /\ wire = NoWrite
    /\ log = <<>>
    /\ load = w
    /\ GraphStore = InitGraphDB

\* c.Write(resp): what the step puts on the connection
Emit(c, text, kind, resp) ==
    LET w == [conn |-> c, sql |-> text, kind |-> kind, resp |-> resp]
    IN  /\ wire' = w
        /\ log' = IF Logged(load) THEN Append(log, w) ELSE log

Silent == wire' = NoWrite /\ log' = log

\* a request may start: in the one-at-a-time workloads only on c1 and only
\* when no request is running
MayStart(c) ==
    /\ pc[c] = "idle"
    /\ c \in SendersOf(load, totalQueries + 1)

\* the cache and the handlers' references after a step
Store(cache, hd) ==
    LET n == Collect(cache, hd)
    IN  /\ entries' = n.entries
        /\ heap' = n.heap
        /\ lookup' = n.lookup
        /\ held' = n.held

Finish(c) ==
    /\ pc' = [pc EXCEPT ![c] = "idle"]
    /\ sql' = [sql EXCEPT ![c] = <<>>]

(***************************************************************************)
(* HandleSQL, one action per step between lock acquisitions.  A method     *)
(* that takes mu.Lock() runs when no reader holds mu.                      *)
(***************************************************************************)
\* sc.mu.Lock() returns at once: no reader holds mu (a writer holds it only
\* within a step)
MayLock == muReaders = {}

\* IncrementTotalQueries, extractSQLQuery, ParseSQL
HandleSQL_Begin(c) ==
    /\ MayStart(c)
    /\ totalQueries < Len(Warmup(load)) + MaxRequests(load)
    /\ MayLock
    /\ totalQueries' = totalQueries + 1
    /\ \E input \in InputsOf(load, totalQueries + 1) :
          LET sqlQueryString == extractSQLQuery(input)
              queryAST       == Parse(sqlQueryString)
          IN  IF sqlQueryString = <<>>
              THEN /\ Emit(c, sqlQueryString, "error",
                        ErrResp(<<"invalid SQL command">>))
                   /\ UNCHANGED <<pc, sql>>
              ELSE IF queryAST.err # <<>>
              THEN /\ Emit(c, sqlQueryString, "error", ErrResp(queryAST.err))
                   /\ UNCHANGED <<pc, sql>>
              ELSE /\ pc' = [pc EXCEPT ![c] = "get"]
                   /\ sql' = [sql EXCEPT ![c] = sqlQueryString]
                   /\ Silent
    /\ UNCHANGED <<entries, heap, lookup, directHits, semanticHits,
                   cacheMisses, muReaders, held, found, load,
                   GraphStore>>

\* a direct lookup that counts the miss itself when it does not find its key
HandleSQL_Get_CountMiss(c) ==
    /\ pc[c] = "get"
    /\ MayLock
    /\ LET r == Get(Cache, sql[c])
       IN  IF r.hit
           THEN /\ directHits' = directHits + 1
                /\ Store(r, [held EXCEPT ![c] = r.elem])
                /\ pc' = [pc EXCEPT ![c] = "render"]
                /\ UNCHANGED cacheMisses
           ELSE /\ pc' = [pc EXCEPT ![c] = "find"]
                /\ cacheMisses' = cacheMisses + 1
                /\ UNCHANGED <<directHits, entries, heap, lookup, held>>
    /\ Silent
    /\ UNCHANGED <<totalQueries, semanticHits,
                   muReaders, sql, found, load,
                   GraphStore>>

\* SQLCache.Get(sqlQueryString)
HandleSQL_Get(c) ==
    /\ pc[c] = "get"
    /\ MayLock
    /\ LET r == Get(Cache, sql[c])
       IN  IF r.hit
           THEN /\ directHits' = directHits + 1
                /\ Store(r, [held EXCEPT ![c] = r.elem])
                /\ pc' = [pc EXCEPT ![c] = "render"]
           ELSE /\ pc' = [pc EXCEPT ![c] = "find"]
                /\ UNCHANGED <<directHits, entries, heap, lookup, held>>
    /\ Silent
    /\ UNCHANGED <<totalQueries, semanticHits, cacheMisses,
                   muReaders, sql, found, load,
                   GraphStore>>

\* formatResults(entry.Results) of the direct hit, with no lock held
HandleSQL_Render(c) ==
    /\ pc[c] = "render"
    /\ Emit(c, sql[c], "direct", formatResults(heap[held[c]].Results))
    /\ Store(Cache, [held EXCEPT ![c] = NoElem])
    /\ Finish(c)
    /\ UNCHANGED <<totalQueries, directHits, semanticHits,
                   cacheMisses, muReaders, found, load,
                   GraphStore>>

\* sc.mu.RLock() of FindSemanticHit
HandleSQL_RLock(c) ==
    /\ pc[c] = "find"
    /\ muReaders' = muReaders \cup {c}
    /\ pc' = [pc EXCEPT ![c] = "scan"]
    /\ Silent
    /\ UNCHANGED <<entries, heap, lookup, totalQueries, directHits,
                   semanticHits, cacheMisses, sql, held, found, load,
                   GraphStore>>

\* a scan that returns without its RUnlock
HandleSQL_Find_KeepLock(c) ==
    /\ pc[c] = "scan"
    /\ LET r == FindSemanticHit(Cache, Parse(sql[c]))
       IN  /\ Store([Cache EXCEPT !.heap = r.heap], held)
           /\ found' = [found EXCEPT ![c] = r.results]
           /\ pc' = [pc EXCEPT ![c] = IF r.hit THEN "semantic" ELSE "miss"]
    /\ muReaders' = muReaders
    /\ Silent
    /\ UNCHANGED <<totalQueries, directHits, semanticHits,
                   cacheMisses, sql, load,
                   GraphStore>>

\* a scan that, on a hit, goes on to IncrementSemanticHits before its
\* deferred RUnlock has run
HandleSQL_Find_CountFirst(c) ==
    /\ pc[c] = "scan"
    /\ LET r == FindSemanticHit(Cache, Parse(sql[c]))
       IN  /\ Store([Cache EXCEPT !.heap = r.heap], held)
           /\ found' = [found EXCEPT ![c] = r.results]
           /\ pc' = [pc EXCEPT ![c] = IF r.hit THEN "semantic" ELSE "miss"]
           /\ muReaders' = IF r.hit THEN muReaders ELSE muReaders \ {c}
    /\ Silent
    /\ UNCHANGED <<totalQueries, directHits, semanticHits,
                   cacheMisses, sql, load,
                   GraphStore>>

\* the scan of FindSemanticHit and its RUnlock
HandleSQL_Find(c) ==
    /\ pc[c] = "scan"
    /\ LET r == FindSemanticHit(Cache, Parse(sql[c]))
       IN  /\ Store([Cache EXCEPT !.heap = r.heap], held)
           /\ found' = [found EXCEPT ![c] = r.results]
           /\ pc' = [pc EXCEPT ![c] = IF r.hit THEN "semantic" ELSE "miss"]
    /\ muReaders' = muReaders \ {c}
    /\ Silent
    /\ UNCHANGED <<totalQueries, directHits, semanticHits,
                   cacheMisses, sql, load,
                   GraphStore>>

\* a semantic hit that inserts the new query with the rows it served
HandleSQL_SemanticHit_Insert(c) ==
    /\ pc[c] = "semantic"
    /\ MayLock
    /\ semanticHits' = semanticHits + 1
    /\ Emit(c, sql[c], "semantic", formatResults(found[c]))
    /\ Store(AddToCache(Cache, sql[c], Parse(sql[c]), found[c]), held)
    /\ found' = [found EXCEPT ![c] = NoTable]
    /\ Finish(c)
    /\ UNCHANGED <<totalQueries, directHits, cacheMisses, muReaders, load,
                   GraphStore>>

\* IncrementSemanticHits, then formatResults(results)
HandleSQL_SemanticHit(c) ==
    /\ pc[c] = "semantic"
    /\ MayLock
    /\ semanticHits' = semanticHits + 1
    /\ Emit(c, sql[c], "semantic", formatResults(found[c]))
    /\ found' = [found EXCEPT ![c] = NoTable]
    /\ Finish(c)
    /\ UNCHANGED <<entries, heap, lookup, totalQueries, directHits,
                   cacheMisses, muReaders, held, load,
                   GraphStore>>

\* cacheMisses++ without mu: the write may store a value read before
\* another request's increment
HandleSQL_Miss_Unlocked(c) ==
    /\ pc[c] = "miss"
    /\ cacheMisses' \in {cacheMisses + 1} \cup
                        {cacheMisses : d \in {x \in Conns \ {c} :
                                                 pc[x] \in {"exec", "add"}}}
    /\ pc' = [pc EXCEPT ![c] = "exec"]
    /\ Silent
    /\ UNCHANGED <<entries, heap, lookup, totalQueries, directHits,
                   semanticHits, muReaders, sql, held, found, load,
                   GraphStore>>

\* IncrementCacheMisses
HandleSQL_Miss(c) ==
    /\ pc[c] = "miss"
    /\ MayLock
    /\ cacheMisses' = cacheMisses + 1
    /\ pc' = [pc EXCEPT ![c] = "exec"]
    /\ Silent
    /\ UNCHANGED <<entries, heap, lookup, totalQueries, directHits,
                   semanticHits, muReaders, sql, held, found, load,
                   GraphStore>>

\* a miss path that inserts the query also when the backing store refuses it
HandleSQL_Execute_CacheError(c) ==
    /\ pc[c] = "exec"
    /\ LET r == executeOnBackingStore(Parse(sql[c]))
       IN  IF r.err # <<>>
           THEN /\ Emit(c, sql[c], "error", ErrResp(r.err))
                /\ Finish(c)
                /\ Store(AddToCache(Cache, sql[c], Parse(sql[c]), NoTable),
                         held)
                /\ UNCHANGED found
           ELSE /\ found' = [found EXCEPT ![c] = r.table]
                /\ pc' = [pc EXCEPT ![c] = "add"]
                /\ Silent
                /\ UNCHANGED <<sql, entries, heap, lookup, held>>
    /\ UNCHANGED <<totalQueries, directHits, semanticHits, cacheMisses,
                   muReaders, load,
                   GraphStore>>

\* time.Sleep(CACHE_MISS_PENALTY), executeOnBackingStore(queryAST)
HandleSQL_Execute(c) ==
    /\ pc[c] = "exec"
    /\ LET r == executeOnBackingStore(Parse(sql[c]))
       IN  IF r.err # <<>>
           THEN /\ Emit(c, sql[c], "error", ErrResp(r.err))
                /\ Finish(c)
                /\ UNCHANGED found
           ELSE /\ found' = [found EXCEPT ![c] = r.table]
                /\ pc' = [pc EXCEPT ![c] = "add"]
                /\ Silent
                /\ UNCHANGED sql
    /\ UNCHANGED <<entries, heap, lookup, totalQueries, directHits,
                   semanticHits, cacheMisses, muReaders, held, load,
                   GraphStore>>

\* a miss-fill that caches a result only when it has rows
HandleSQL_Add_SkipEmpty(c) ==
    /\ pc[c] = "add"
    /\ MayLock
    /\ LET r == IF found[c].Rows = <<>> THEN Cache
                ELSE AddToCache(Cache, sql[c], Parse(sql[c]), found[c])
       IN  Store(r, held)
    /\ Emit(c, sql[c], "miss", formatResults(found[c]))
    /\ found' = [found EXCEPT ![c] = NoTable]
    /\ Finish(c)
    /\ UNCHANGED <<totalQueries, directHits, semanticHits, cacheMisses,
                   muReaders, load,
                   GraphStore>>

\* SQLCache.AddToCache(sqlQueryString, queryAST, results), then
\* formatResults(results)
HandleSQL_Add(c) ==
    /\ pc[c] = "add"
    /\ MayLock
    /\ LET r == AddToCache(Cache, sql[c], Parse(sql[c]), found[c])
       IN  Store(r, held)
    /\ Emit(c, sql[c], "miss", formatResults(found[c]))
    /\ found' = [found EXCEPT ![c] = NoTable]
    /\ Finish(c)
    /\ UNCHANGED <<totalQueries, directHits, semanticHits, cacheMisses,
                   muReaders, load,
                   GraphStore>>

\* a statistics request that counts itself as a query
HandleSQLStats_Counted(c) ==
    /\ MayStart(c)
    /\ totalQueries' = totalQueries + 1
    /\ wire' = [conn |-> c, sql |-> <<"SQLSTATS">>, kind |-> "stats",
                resp |-> GetCacheStats]
    /\ UNCHANGED <<entries, heap, lookup, directHits, semanticHits,
                   cacheMisses, muReaders, pc, sql, held, found, log, load,
                   GraphStore>>

\* HandleSQLStats
HandleSQLStats(c) ==
    /\ MayStart(c)
    /\ wire' = [conn |-> c, sql |-> <<"SQLSTATS">>, kind |-> "stats",
                resp |-> GetCacheStats]
    /\ UNCHANGED <<entries, heap, lookup, totalQueries, directHits,
                   semanticHits, cacheMisses, muReaders, pc, sql, held,
                   found, log, load,
                   GraphStore>>

Next ==
    \E c \in Conns :
        \/ HandleSQL_Begin(c)
        \/ HandleSQL_Get(c)
        \/ HandleSQL_Render(c)
        \/ HandleSQL_RLock(c)
        \/ HandleSQL_Find(c)
        \/ HandleSQL_SemanticHit(c)
        \/ HandleSQL_Miss(c)
        \/ HandleSQL_Execute(c)
        \/ HandleSQL_Add(c)
        \/ HandleSQLStats(c)

Init == InitLoad("conc")
InitFill == InitLoad("fill")
InitScript == InitLoad("script")
InitPair == InitLoad("pair")
InitLate == InitLoad("late")

Spec == Init /\ [][Next]_vars
SpecFill == InitFill /\ [][Next]_vars
SpecScript == InitScript /\ [][Next]_vars
SpecPair == InitPair /\ [][Next]_vars
SpecLate == InitLate /\ [][Next]_vars

\* the positions from which the next step of a request calls a method that
\* takes mu.Lock(): Get, IncrementSemanticHits, IncrementCacheMisses,
\* AddToCache (an idle connection's SQLSTATS and the scan take mu.RLock(),
\* which readers do not block; the other steps take no lock)
BeforeLock == {"get", "semantic", "miss", "add"}

\* the next step of connection d can be taken now: d is not waiting for mu
NotBlocked(d) == pc[d] \in BeforeLock => MayLock

\* a started request moves on to its next position
Advance(c) ==
    /\ pc[c] # "idle"
    /\ NotBlocked(c)
    /\ \E p \in {"get", "render", "find", "scan", "semantic", "miss",
                 "exec", "add", "idle"} \ {pc[c]} :
          pc' = [pc EXCEPT ![c] = p]

\* the scheduler runs every goroutine that stays runnable: a handler whose
\* next step does not wait for mu eventually takes it
SpecFair == Init /\ [][Next]_vars /\ \A c \in Conns : WF_pc(Advance(c))

(***************************************************************************)
(* The graph commands.  A request buffer is the parts that                 *)
(* strings.Split(input, "\r\n") yields; node names are whole strings.      *)
(***************************************************************************)
\* "*<n>\r\n$<len>\r\n<cmd>\r\n" and "$<len>\r\n<arg>\r\n" per argument
RespGraph(cmd, args) ==
    <<"*n", "$len", cmd>>
       \o (IF Len(args) >= 1 THEN <<"$len", args[1]>> ELSE <<>>)
       \o (IF Len(args) >= 2 THEN <<"$len", args[2]>> ELSE <<>>)
       \o <<"">>

\* the nodes the clients name in G.ADDEDGE, and in the reads
EdgeNodes == {"Alice", "Eve", "Zed"}
ReadNodes == EdgeNodes \cup {"Nobody"}

\* the number of edges the clients add to those of InitGraphDB
MaxAddEdge == 2

\* the pairs (node, neighbour) of a store
Links(g) == {<<a, b>> \in (DOMAIN g) \X (UNION Range(g)) : b \in g[a]}

\* c.Write(resp) of a graph handler
GraphWrite(c, cmd, resp) ==
    /\ wire' = [conn |-> c, sql |-> cmd, kind |-> "graph", resp |-> resp]
    /\ UNCHANGED <<entries, heap, lookup, totalQueries, directHits,
                   semanticHits, cacheMisses, muReaders, pc, sql, held,
                   found, log, load>>

\* a G.ADDEDGE that records the edge at node1 only
HandleGraphAddEdge_OneWay(c) ==
    \E input \in {RespGraph("G.ADDEDGE", <<a, b>>) : a, b \in EdgeNodes} :
        LET node1 == input[5]
            g1 == IF node1 \in DOMAIN GraphStore THEN GraphStore
                  ELSE GraphStore @@ (node1 :> {})
            g2 == [g1 EXCEPT ![node1] = @ \cup {input[7]}]
        IN  /\ Cardinality(Links(g2) \ Links(InitGraphDB)) <= 2 * MaxAddEdge
            /\ GraphStore' = g2
            /\ GraphWrite(c, <<"G.ADDEDGE", node1, input[7]>>, OkResp)

\* HandleGraphAddEdge, under graphMutex.Lock()
HandleGraphAddEdge(c) ==
    \E input \in {RespGraph("G.ADDEDGE", <<a, b>>) : a, b \in EdgeNodes}
                    \cup {RespGraph("G.ADDEDGE", <<"Alice">>)} :
        IF Len(input) < 7
        THEN /\ GraphWrite(c, <<"G.ADDEDGE">>,
                    ErrResp(<<"wrong number of arguments for G.ADDEDGE">>))
             /\ UNCHANGED GraphStore
        ELSE LET node1 == input[5]
                 node2 == input[7]
                 g1 == IF node1 \in DOMAIN GraphStore THEN GraphStore
                       ELSE GraphStore @@ (node1 :> {})
                 g2 == [g1 EXCEPT ![node1] = @ \cup {node2}]
                 g3 == IF node2 \in DOMAIN g2 THEN g2
                       ELSE g2 @@ (node2 :> {})
                 g4 == [g3 EXCEPT ![node2] = @ \cup {node1}]
             IN  /\ Cardinality(Links(g4) \ Links(InitGraphDB))
                       <= 2 * MaxAddEdge
                 /\ GraphStore' = g4
                 /\ GraphWrite(c, <<"G.ADDEDGE", node1, node2>>, OkResp)

\* HandleGraphGetFriends, under graphMutex.RLock()
HandleGraphGetFriends(c) ==
    \E input \in {RespGraph("G.GETFRIENDS", <<a>>) : a \in ReadNodes}
                    \cup {RespGraph("G.GETFRIENDS", <<>>)} :
        /\ IF Len(input) < 5
           THEN GraphWrite(c, <<"G.GETFRIENDS">>,
                    ErrResp(<<"wrong number of arguments for G.GETFRIENDS">>))
           ELSE LET node == input[5]
                IN  \E resp \in IF node \notin DOMAIN GraphStore
                                THEN formatSetAsRespArray({})
                                ELSE formatSetAsRespArray(GraphStore[node]) :
                       GraphWrite(c, <<"G.GETFRIENDS", node>>, resp)
        /\ UNCHANGED GraphStore

\* the set HandleGraphFOF collects when it excludes the start node only
FriendsOfFriends_NoExclude(g, startNode) ==
    UNION {{fof \in g[friend] : fof # startNode} :
              friend \in {f \in g[startNode] : f \in DOMAIN g}}

\* the set HandleGraphFOF collects for a node of the store: excludeSet is
\* the start node and its direct friends; every friend of a direct friend
\* that is not excluded is collected
FriendsOfFriends(g, startNode) ==
    LET directFriends == g[startNode]
        excludeSet == {startNode} \cup directFriends
    IN  UNION {{fof \in g[friend] : fof \notin excludeSet} :
                  friend \in {f \in directFriends : f \in DOMAIN g}}

\* HandleGraphFOF, under graphMutex.RLock()
HandleGraphFOF(c) ==
    \E input \in {RespGraph("G.FOF", <<a>>) : a \in ReadNodes}
                    \cup {RespGraph("G.FOF", <<>>)} :
        /\ IF Len(input) < 5
           THEN GraphWrite(c, <<"G.FOF">>,
                    ErrResp(<<"wrong number of arguments for G.FOF">>))
           ELSE LET startNode == input[5]
                IN  \E resp \in IF startNode \notin DOMAIN GraphStore
                                THEN formatSetAsRespArray({})
                                ELSE formatSetAsRespArray(
                                        FriendsOfFriends(GraphStore, startNode)) :
                       GraphWrite(c, <<"G.FOF", startNode>>, resp)
        /\ UNCHANGED GraphStore

NextGraph ==
    \E c \in Conns :
        \/ HandleGraphAddEdge(c)
        \/ HandleGraphGetFriends(c)
        \/ HandleGraphFOF(c)

InitGraph == InitLoad("graph")
SpecGraph == InitGraph /\ [][NextGraph]_vars

(***************************************************************************)
(* Vocabulary of the properties.                                           *)
(***************************************************************************)
\* no SQL request is in progress
Quiescent == \A c \in Conns : pc[c] = "idle"

\* the entries of the recency list, front first
ListEntry(k) == heap[entries[k]]
OriginalTexts == {ListEntry(k).Query.OriginalString : k \in DOMAIN entries}

\* the columns a query projects: its select list, or for * those of its table
ProjectedColumns(q) ==
    IF q.SelectColumns[1] = "*"
    THEN IF q.FromTable \in DOMAIN BackingDatabase
         THEN Range(BackingDatabase[q.FromTable].Columns) ELSE {}
    ELSE Range(q.SelectColumns)

\* the set of rows of a table, each restricted to the columns cols
RowSetOn(rows, cols) ==
    {[c \in cols \cap DOMAIN rows[k] |-> rows[k][c]] : k \in DOMAIN rows}

\* evaluating a query directly on its backing table
Evaluate(q) == executeOnBackingStore(q).table

(***************************************************************************)
(* C1  Subsumption soundness: whenever the scan has found a cached query   *)
(* that isQuerySubset accepts for the new query, the rows it serves from   *)
(* the cached results are, on the new query's projected columns, the rows  *)
(* of the new query evaluated on the backing table.                        *)
(***************************************************************************)
C1_SubsumptionSoundness ==
    \A c \in Conns :
        pc[c] = "semantic" =>
            LET qn == Parse(sql[c])
            IN  RowSetOn(found[c].Rows, ProjectedColumns(qn))
                    = RowSetOn(Evaluate(qn).Rows, ProjectedColumns(qn))

(***************************************************************************)
(* C2  On a semantic hit the table returned has the new query's select     *)
(* list as its columns (for a star, the table's columns), and every row    *)
(* carries only the new query's projected columns.                         *)
(***************************************************************************)
C2_SemanticHitProjects ==
    \A c \in Conns :
        pc[c] = "semantic" =>
            LET qn == Parse(sql[c])
            IN  /\ found[c].Columns = Evaluate(qn).Columns
                /\ \A k \in DOMAIN found[c].Rows :
                      DOMAIN found[c].Rows[k] \subseteq ProjectedColumns(qn)

(***************************************************************************)
(* C3  Counter identity: whenever no SQL request is in progress,           *)
(* total_queries = direct_hits + semantic_hits + misses.                   *)
(***************************************************************************)
C3_CounterIdentity ==
    Quiescent => totalQueries = directHits + semanticHits + cacheMisses

(***************************************************************************)
(* C4  Index-list agreement: the key set of lookup equals the set of       *)
(* OriginalString values of the entries in the recency list.               *)
(***************************************************************************)
C4_IndexListAgreement == DOMAIN lookup = OriginalTexts

\* the queries of the recency list, front first
ListQueries == [k \in DOMAIN entries |-> ListEntry(k).Query]

\* the step of connection c that inserts a new key into a full cache
EvictingFill(c) ==
    /\ pc[c] = "add"
    /\ pc'[c] = "idle"
    /\ sql[c] \notin DOMAIN lookup
    /\ Len(entries) = CACHE_MAX_SIZE

\* the step of connection c in which Get reports a direct hit
DirectHitStep(c) == pc[c] = "get" /\ pc'[c] = "render"

(***************************************************************************)
(* C5  Eviction: a miss-fill that inserts a new key into a cache holding   *)
(* CACHE_MAX_SIZE entries removes exactly the back entry of the list, and  *)
(* removes it from lookup in the same step, all other entries and keys     *)
(* remaining; and a direct hit is never served from an entry that is not   *)
(* in the list, so the evicted text is not a direct hit afterwards.        *)
(***************************************************************************)
C5_Eviction ==
    [][\A c \in Conns :
         /\ EvictingFill(c) =>
              /\ ListQueries' = <<Parse(sql[c])>>
                                   \o SubSeq(ListQueries, 1, Len(entries) - 1)
              /\ \A k \in DOMAIN lookup :
                    IF lookup[k] = entries[Len(entries)]
                    THEN k \notin DOMAIN lookup'
                    ELSE k \in DOMAIN lookup'
         /\ DirectHitStep(c) => lookup[sql[c]] \in Range(entries)]_vars

(***************************************************************************)
(* C6  Capacity: the recency list never holds more than CACHE_MAX_SIZE     *)
(* entries, whatever the order and interleaving of the requests.           *)
(***************************************************************************)
C6_Capacity == Len(entries) <= CACHE_MAX_SIZE

\* a new key has been inserted into the full list: LogWarnings is only
\* ever inserted after the five entries of the warm-up
C6_Witness ==
    /\ load = "fill"
    /\ Len(entries) = CACHE_MAX_SIZE
    /\ Parse(LogWarnings).OriginalString \in OriginalTexts

\* the first two requests of a fresh cache carried the same text and both
\* have been answered
SameTextTwice ==
    /\ load = "script"
    /\ Quiescent
    /\ Len(log) = 2
    /\ log[1].sql = log[2].sql

\* one miss followed by one direct hit with the same response body
OneMissOneDirectHit ==
    /\ log[2].resp = log[1].resp
    /\ log[1].kind = "miss"
    /\ log[2].kind = "direct"
    /\ <<totalQueries, directHits, semanticHits, cacheMisses>> = <<2, 1, 0, 1>>

\* the text parses and names a table of the backing store
Answerable(text) ==
    /\ Parse(text).err = <<>>
    /\ Parse(text).FromTable \in DOMAIN BackingDatabase

(***************************************************************************)
(* C7  Direct-hit idempotence, as stated: from an empty cache, the same    *)
(* query text sent twice in succession gives identical response bodies     *)
(* and advances the counters by exactly one miss and one direct hit.       *)
(***************************************************************************)
C7_AnyText == SameTextTwice => OneMissOneDirectHit

(***************************************************************************)
(* C7  Direct-hit idempotence, for a text that parses and names a table    *)
(* of the backing store: from an empty cache, sending it twice in          *)
(* succession gives identical response bodies, the first a miss and the    *)
(* second a direct hit, and the counters advance by one miss and one       *)
(* direct hit.                                                             *)
(***************************************************************************)
C7_DirectHitIdempotence ==
    (SameTextTwice /\ Answerable(log[1].sql)) => OneMissOneDirectHit

C7_Witness == SameTextTwice /\ Answerable(log[1].sql) /\ log[2].kind = "direct"

(***************************************************************************)
(* C8  Consistency: every entry the cache holds has, as its results, the   *)
(* evaluation of its own query on the backing table of its FROM clause,    *)
(* also after a key is inserted again and after concurrent inserts.        *)
(***************************************************************************)
C8_Consistency ==
    \A e \in DOMAIN heap : heap[e].Results = Evaluate(heap[e].Query)

\* two overlapping requests missed on the same text and both inserted it:
\* seven misses with the second warm-up entry still listed (two misses on
\* different texts evict it)
C8_Witness ==
    /\ load = "fill"
    /\ Quiescent
    /\ cacheMisses = Len(Warmup("fill")) + 2
    /\ Parse(LowStock).OriginalString \in OriginalTexts

\* some entry of the list is on the table of the query
TableIsCached(q) ==
    \E k \in DOMAIN entries : ListQueries[k].FromTable = q.FromTable

\* some entry of the list subsumes the query
SomeEntrySubsumes(q) ==
    \E k \in DOMAIN entries : isQuerySubset(q, ListQueries[k])

\* 1 if some connection takes the step from pc value a to pc value b
Took(a, b) ==
    IF \E c \in Conns : pc[c] = a /\ pc'[c] = b THEN 1 ELSE 0

(***************************************************************************)
(* C9  Request classification: a parsed request is counted in exactly one  *)
(* category, by precedence: a direct hit if and only if its text is a key  *)
(* of lookup; otherwise a semantic hit if and only if some cached entry    *)
(* subsumes it; otherwise a miss.  A query on a table no cached entry is   *)
(* on is never a direct or semantic hit.                                   *)
(***************************************************************************)
C9_Classification ==
    [][/\ directHits' = directHits + Took("get", "render")
       /\ semanticHits' = semanticHits + Took("semantic", "idle")
       /\ cacheMisses' = cacheMisses + Took("miss", "exec")
       /\ \A c \in Conns :
            LET q == Parse(sql[c])
            IN  /\ (pc[c] = "get" /\ pc'[c] # "get") =>
                      /\ pc'[c] = "render" <=> sql[c] \in DOMAIN lookup
                      /\ pc'[c] = "find" <=> sql[c] \notin DOMAIN lookup
                      /\ ~TableIsCached(q) => pc'[c] = "find"
                /\ (pc[c] = "scan" /\ pc'[c] # "scan") =>
                      /\ pc'[c] = "semantic" <=> SomeEntrySubsumes(q)
                      /\ pc'[c] = "miss" <=> ~SomeEntrySubsumes(q)
                      /\ ~TableIsCached(q) => pc'[c] = "miss"]_vars

\* the texts answered so far, in order
LogTexts == [k \in DOMAIN log |-> log[k].sql]

(***************************************************************************)
(* C9  Scenario totals: after the four requests of the seed scenario on a  *)
(* fresh cache the counters are total 4, direct 1, semantic 2, misses 1;   *)
(* after the four requests of the demonstration script they are total 4,   *)
(* direct 1, semantic 1, misses 2.                                         *)
(***************************************************************************)
C9_ScenarioTotals ==
    (load = "script" /\ Quiescent) =>
        /\ LogTexts = <<UsersOver40, NameOver50, UsersOver40, NameAgeOver90>>
             => <<totalQueries, directHits, semanticHits, cacheMisses>>
                    = <<4, 1, 2, 1>>
        /\ LogTexts = <<LogsOver80, LogsOver95, LogsOver80, NameAgeOver90>>
             => <<totalQueries, directHits, semanticHits, cacheMisses>>
                    = <<4, 1, 1, 2>>

(***************************************************************************)
(* C10 Canonical key: a request whose trimmed, semicolon-stripped text is  *)
(* the OriginalString of an entry of the list is a direct hit, and no two  *)
(* entries of the list have the same OriginalString.                       *)
(***************************************************************************)
C10_CanonicalKey ==
    [][/\ \A c \in Conns :
            (/\ pc[c] = "get"
             /\ pc'[c] # "get"
             /\ Parse(sql[c]).OriginalString \in OriginalTexts)
                => pc'[c] = "render"
       /\ \A j, k \in DOMAIN ListQueries' :
            j # k => ListQueries'[j].OriginalString
                        # ListQueries'[k].OriginalString]_vars

\* the step of connection c in which the scan reports a semantic hit
SemanticHitStep(c) == pc[c] = "scan" /\ pc'[c] = "semantic"

\* the entry used last: the one with the latest Timestamp
LastUsed(h) == CHOOSE e \in DOMAIN h :
                  \A x \in DOMAIN h : h[x].Timestamp <= h[e].Timestamp

(***************************************************************************)
(* C11 Promotion on any hit: after the step that serves a request as a     *)
(* direct or a semantic hit, the entry that served it (the one whose       *)
(* Timestamp the hit has just refreshed) is at the front of the list.      *)
(***************************************************************************)
C11_PromotionOnHit ==
    [][\A c \in Conns :
         (DirectHitStep(c) \/ SemanticHitStep(c)) =>
             /\ entries' # <<>>
             /\ entries'[1] = LastUsed(heap')]_vars

\* the projection rule: a cached star accepts any select list; a cached
\* explicit list accepts only select lists of columns it names
ProjectionAccepted(qn, qc) ==
    \/ qc.SelectColumns[1] = "*"
    \/ Range(qn.SelectColumns) \subseteq Range(qc.SelectColumns)

(***************************************************************************)
(* C12 Projection rule of subsumption: for the query being scanned for and *)
(* every cached query, isQuerySubset is true exactly when the two are on   *)
(* the same table, the projection rule accepts (a star Qn only against a   *)
(* star Qc, an explicit Qn against a Qc naming all its columns or star)    *)
(* and the predicate test accepts.                                         *)
(***************************************************************************)
C12_ProjectionRule ==
    \A c \in Conns :
        pc[c] = "scan" =>
            \A k \in DOMAIN entries :
                LET qn == Parse(sql[c])
                    qc == ListQueries[k]
                IN  isQuerySubset(qn, qc)
                        <=> /\ qn.FromTable = qc.FromTable
                            /\ ProjectionAccepted(qn, qc)
                            /\ isConditionSubset(qn.Where, qc.Where)

\* the predicate rule on two conditions, by operator pair
PredicateRule(newCond, cachedCond) ==
    LET n  == Atoi(newCond.Value)
        c  == Atoi(cachedCond.Value)
        on == newCond.Operator
        oc == cachedCond.Operator
    IN  IF ~cachedCond.present THEN TRUE
        ELSE IF ~newCond.present THEN FALSE
        ELSE IF newCond.Column # cachedCond.Column THEN FALSE
        ELSE IF n.ok /\ c.ok
        THEN CASE on = ">" /\ oc = ">" -> n.val >= c.val
               [] on = "<" /\ oc = "<" -> n.val <= c.val
               [] on = "=" /\ oc = ">" -> n.val > c.val
               [] on = "=" /\ oc = "<" -> n.val < c.val
               [] on = "=" /\ oc = "=" -> n.val = c.val
               [] OTHER -> FALSE
        ELSE on = "=" /\ oc = "=" /\ newCond.Value = cachedCond.Value

(***************************************************************************)
(* C13 Predicate rule of subsumption: for the query being scanned for and  *)
(* every cached query, isConditionSubset is true exactly as the rule says: *)
(* with two integer literals on one column, (>,>) with n >= c, (<,<) with  *)
(* n <= c, (=,>) with n > c, (=,<) with n < c, (=,=) with n = c as         *)
(* integers, false for other pairs; with a literal that is not an integer, *)
(* only (=,=) with the same text; a cached query without WHERE accepts     *)
(* all; a new query without WHERE, or on another column, is refused.       *)
(***************************************************************************)
C13_PredicateRule ==
    \A c \in Conns :
        pc[c] = "scan" =>
            \A k \in DOMAIN entries :
                LET qn == Parse(sql[c])
                    qc == ListQueries[k]
                IN  isConditionSubset(qn.Where, qc.Where)
                        <=> PredicateRule(qn.Where, qc.Where)

\* what an entry holds apart from its time of use
Content(entry) == [Query |-> entry.Query, Results |-> entry.Results]

\* the contents of the recency list, front first
ListContents == [k \in DOMAIN entries |-> Content(ListEntry(k))]

\* the contents of the list l of elements of the heap h
ContentsOf(l, h) == [k \in DOMAIN l |-> Content(h[l[k]])]

(***************************************************************************)
(* C14 Direct hit effect: the step in which Get finds its key moves that   *)
(* entry to the front of the list, keeps the other entries in their order, *)
(* changes neither the set of entries nor any entry's results, adds 1 to   *)
(* directHits and leaves semanticHits and cacheMisses unchanged.           *)
(***************************************************************************)
C14_DirectHitEffect ==
    [][\A c \in Conns :
         DirectHitStep(c) =>
             LET e == lookup[sql[c]]
                 rest == SelectSeq(entries, LAMBDA x : x # e)
             IN  /\ ListContents' = ContentsOf(<<e>> \o rest, heap)
                 /\ Len(entries') = Len(entries)
                 /\ DOMAIN lookup' = DOMAIN lookup
                 /\ directHits' = directHits + 1
                 /\ semanticHits' = semanticHits
                 /\ cacheMisses' = cacheMisses]_vars

\* the step of connection c in which AddToCache finds its key present
ReinsertStep(c) ==
    /\ pc[c] = "add"
    /\ pc'[c] = "idle"
    /\ sql[c] \in DOMAIN lookup

(***************************************************************************)
(* C15 Re-insertion: the step in which AddToCache finds its key present    *)
(* replaces that entry's results, moves the entry to the front of the      *)
(* list, evicts nothing and leaves the size of the list and the key set of *)
(* lookup unchanged, also when the list is full.                           *)
(***************************************************************************)
C15_Reinsertion ==
    [][\A c \in Conns :
         ReinsertStep(c) =>
             LET e == lookup[sql[c]]
                 rest == SelectSeq(entries, LAMBDA x : x # e)
             IN  /\ ListContents' =
                        <<[Query |-> heap[e].Query, Results |-> found[c]]>>
                            \o ContentsOf(rest, heap)
                 /\ Len(entries') = Len(entries)
                 /\ DOMAIN lookup' = DOMAIN lookup]_vars

\* the connection sleeps or reads the backing store, or renders a direct hit
Unlocked(c) == pc[c] \in {"exec", "render"}

(***************************************************************************)
(* C16 No lock held outside the cache methods: a connection holds mu only  *)
(* during the scan of FindSemanticHit, never while it sleeps, reads the    *)
(* backing store or renders; and while a connection sleeps or renders,     *)
(* every step of another connection's request, and SQLSTATS, can be taken. *)
(***************************************************************************)
C16_NoLockWhileSleeping ==
    /\ \A c \in muReaders : pc[c] = "scan"
    /\ \A c \in Conns :
          Unlocked(c) => \A d \in Conns \ {c} : NotBlocked(d)

\* a semantic hit of c2 has just been answered while c1 is in its miss path
C16_Witness ==
    /\ pc["c1"] = "exec"
    /\ wire # NoWrite
    /\ wire.conn = "c2"
    /\ wire.kind = "semantic"

\* the first two requests of a fresh cache overlapped, both missed on the
\* same text (each miss inserts under its text, and lookup has one key) and
\* both have inserted
StampedeDone ==
    /\ load = "conc"
    /\ Quiescent
    /\ totalQueries = 2
    /\ cacheMisses = 2
    /\ Cardinality(DOMAIN lookup) = 1

(***************************************************************************)
(* C17 Stampede tolerance: after two connections have concurrently missed  *)
(* on the same text and both inserted, the cache holds exactly one entry   *)
(* for that text, with the results of its query, misses has advanced by 2, *)
(* and capacity and index-list agreement hold.                             *)
(***************************************************************************)
C17_Stampede ==
    StampedeDone =>
        /\ Len(entries) = 1
        /\ ListEntry(1).Results = Evaluate(ListEntry(1).Query)
        /\ Len(entries) <= CACHE_MAX_SIZE
        /\ DOMAIN lookup = OriginalTexts

\* the element whose Timestamp the scan of connection c is about to set
\* while c holds mu.RLock(); NoElem if the scan will find no superset
ScanTarget(c) ==
    IF pc[c] = "scan" /\ FirstSuperset(Cache, Parse(sql[c])) # 0
    THEN entries[FirstSuperset(Cache, Parse(sql[c]))]
    ELSE NoElem

\* the element whose Results connection c is about to read, with no lock
\* held, to render its direct hit
RenderTarget(c) == IF pc[c] = "render" THEN held[c] ELSE NoElem

\* the element whose Results the AddToCache of connection c is about to
\* replace, under mu.Lock()
ReplaceTarget(c) ==
    IF pc[c] = "add" /\ sql[c] \in DOMAIN lookup THEN lookup[sql[c]]
    ELSE NoElem

\* every write to an entry is made under the exclusive lock
WritesUnderLock == \A c \in Conns : ScanTarget(c) = NoElem

\* no two connections are about to write one entry with no order between
\* the writes
NoWriteWriteRace ==
    \A c, d \in Conns :
        (c # d /\ ScanTarget(c) # NoElem) => ScanTarget(c) # ScanTarget(d)

\* no connection is about to read the Results of an entry another may
\* replace before the read
NoReadWriteRace ==
    \A c, d \in Conns :
        (c # d /\ RenderTarget(c) # NoElem) => RenderTarget(c) # ReplaceTarget(d)

(***************************************************************************)
(* C18 No request mutates an entry another is reading: every write to an   *)
(* entry's Results or Timestamp is made under the exclusive lock, no two   *)
(* requests can write the same entry without an order between them, and no *)
(* request renders an entry's Results while another request can replace    *)
(* them.                                                                   *)
(***************************************************************************)
C18_NoDataRace ==
    /\ WritesUnderLock
    /\ NoWriteWriteRace
    /\ NoReadWriteRace

\* the step leaves the list, the index and every entry as they were
CacheUnchanged == entries' = entries /\ heap' = heap /\ lookup' = lookup

\* the step is one of connection c's request, whose text parses but names
\* no table of the backing store: the request will end in an error
FailingStep(c) ==
    /\ pc[c] # "idle"
    /\ pc'[c] # pc[c]
    /\ ~Answerable(sql[c])

\* the step writes an error response on connection c
ErrorResponse(c) == wire'.conn = c /\ wire'.kind = "error"

\* the responses recorded after an error response that are misses or direct
\* hits carry the evaluation of their query
ServedAfterError(l) ==
    \A k \in DOMAIN l :
        (/\ \E i \in 1..(k - 1) : l[i].kind = "error"
         /\ l[k].kind \in {"miss", "direct"})
            => l[k].resp = formatResults(Evaluate(Parse(l[k].sql)))

(***************************************************************************)
(* C19 Error recovery: no step of a request that ends in an error response *)
(* (no query extracted, parse failure, unknown table) changes the list,    *)
(* the index or any entry; after the error response the connection is idle *)
(* and holds neither mu nor an entry; and later requests are answered with *)
(* the evaluation of their queries.                                        *)
(***************************************************************************)
C19_ErrorRecovery ==
    [][/\ \A c \in Conns :
            /\ FailingStep(c) => CacheUnchanged
            /\ ErrorResponse(c) =>
                  /\ CacheUnchanged
                  /\ pc'[c] = "idle"
                  /\ c \notin muReaders'
                  /\ held'[c] = NoElem
       /\ ServedAfterError(log')]_vars

\* an error response has been followed by a miss and then a direct hit
C19_Witness ==
    /\ load = "script"
    /\ Len(log) = 3
    /\ log[1].kind = "error"
    /\ log[2].kind = "miss"
    /\ log[3].kind = "direct"

\* the step writes the statistics report on connection c
StatsResponse(c) == wire'.conn = c /\ wire'.kind = "stats"

(***************************************************************************)
(* C20 SQLSTATS changes nothing: the step that answers it leaves the four  *)
(* counters, the list, the entries and the index unchanged, and its report *)
(* carries the counters (with the sum of both kinds of hit) and the length *)
(* of the list of the state it read, with the capacity.                    *)
(***************************************************************************)
C20_StatsFrame ==
    [][\A c \in Conns :
         StatsResponse(c) =>
             /\ CacheUnchanged
             /\ UNCHANGED <<totalQueries, directHits, semanticHits,
                            cacheMisses>>
             /\ wire'.resp.msg =
                    <<totalQueries, directHits + semanticHits, directHits,
                      semanticHits, cacheMisses, Len(entries),
                      CACHE_MAX_SIZE>>]_vars

\* a report written while the other connection is in its miss path, after
\* a semantic hit on a cached entry
C20_Witness ==
    /\ wire.kind = "stats"
    /\ wire.resp.msg[4] > 0
    /\ wire.resp.msg[6] > 0
    /\ \E c \in Conns : pc[c] = "exec"

\* the positions of the list whose entry subsumes the query q
SubsumingPositions(q) ==
    {k \in DOMAIN entries : isQuerySubset(q, ListQueries[k])}

(***************************************************************************)
(* C21 Semantic scan tie-break: the entry that serves a semantic hit is    *)
(* the subsuming entry closest to the front of the list at the time of the *)
(* scan: it is the one whose Timestamp the scan refreshes, and the rows    *)
(* served are its results filtered by the new query's condition.           *)
(***************************************************************************)
C21_TieBreak ==
    [][\A c \in Conns :
         SemanticHitStep(c) =>
             LET q == Parse(sql[c])
                 k == CHOOSE i \in SubsumingPositions(q) :
                         \A j \in SubsumingPositions(q) : i <= j
             IN  /\ entries'[k] = LastUsed(heap')
                 /\ found'[c] =
                        filterResultsFromSuperset(ListEntry(k).Results, q.Where)]_vars

\* a scan has found a superset while two entries of the list subsume the
\* query
C21_Witness ==
    \E c \in Conns :
        /\ pc[c] = "semantic"
        /\ Cardinality(SubsumingPositions(Parse(sql[c]))) >= 2

\* the step of connection c in which Get does not find its key
DirectMissStep(c) == pc[c] = "get" /\ pc'[c] = "find"

\* the step of connection c in which the scan finds no superset
SemanticMissStep(c) == pc[c] = "scan" /\ pc'[c] = "miss"

(***************************************************************************)
(* C22 Failed probes have no side effect: the step in which Get does not   *)
(* find its key, and the step in which the scan finds no subsuming entry,  *)
(* leave the list and its order, the index, every entry's Results and      *)
(* Timestamp and the four counters unchanged.                              *)
(***************************************************************************)
C22_FailedProbes ==
    [][\A c \in Conns :
         (DirectMissStep(c) \/ SemanticMissStep(c)) =>
             /\ CacheUnchanged
             /\ UNCHANGED <<totalQueries, directHits, semanticHits,
                            cacheMisses>>]_vars

\* both probes of a request have failed on a cache that holds an entry
C22_Witness ==
    \E c \in Conns : pc[c] = "miss" /\ Len(entries) > 0

\* the steps of connection c that a request served as a semantic hit takes
BeginStep(c) == pc[c] = "idle" /\ pc'[c] = "get"
RLockStep(c) == pc[c] = "find" /\ pc'[c] = "scan"
SemanticAnswerStep(c) == pc[c] = "semantic" /\ pc'[c] = "idle"

\* the step changes neither the entries of the list, their order and
\* results, nor the key set of the index
SameEntries ==
    /\ ListContents' = ListContents
    /\ DOMAIN lookup' = DOMAIN lookup

(***************************************************************************)
(* C23 A semantic hit never inserts or evicts: every step of a request     *)
(* served as a semantic hit leaves the entries of the list, their results, *)
(* the size of the list and the key set of the index as they were; its     *)
(* first step adds 1 to totalQueries, its last adds 1 to semanticHits, and *)
(* no step changes another counter.                                        *)
(***************************************************************************)
C23_SemanticHitFrame ==
    [][\A c \in Conns :
         /\ (\/ BeginStep(c) \/ DirectMissStep(c) \/ RLockStep(c)
             \/ SemanticHitStep(c) \/ SemanticAnswerStep(c)) => SameEntries
         /\ BeginStep(c) =>
               /\ totalQueries' = totalQueries + 1
               /\ UNCHANGED <<directHits, semanticHits, cacheMisses>>
         /\ (DirectMissStep(c) \/ RLockStep(c) \/ SemanticHitStep(c)) =>
               UNCHANGED <<totalQueries, directHits, semanticHits,
                           cacheMisses>>
         /\ SemanticAnswerStep(c) =>
               /\ semanticHits' = semanticHits + 1
               /\ UNCHANGED <<totalQueries, directHits, cacheMisses>>]_vars

\* the second request of a fresh cache has been served as a semantic hit
\* and the cache still holds the one entry of the first
C23_Witness ==
    /\ load = "script"
    /\ Len(log) = 2
    /\ log[2].kind = "semantic"
    /\ Len(entries) = 1
    /\ <<totalQueries, directHits, semanticHits, cacheMisses>> = <<2, 0, 1, 1>>

(***************************************************************************)
(* C24 The list is ordered by last use: from front to back the Timestamps  *)
(* of the entries never increase, so the entry at the back has the oldest  *)
(* Timestamp.                                                              *)
(***************************************************************************)
C24_OrderedByLastUse ==
    \A k \in 1..(Len(entries) - 1) :
        ListEntry(k).Timestamp >= ListEntry(k + 1).Timestamp

\* the step of connection c that inserts the result of a miss and answers
MissFillStep(c) == pc[c] = "add" /\ pc'[c] = "idle"

\* the latest step wrote the nil bulk string as an answer of the given kind
NilAnswer(w, kind) == w.kind = kind /\ w.resp = NilBulk

(***************************************************************************)
(* C25 Empty results are cached like any other: a miss whose result has no *)
(* rows is inserted at the front of the list under its text and answered   *)
(* with the nil bulk string; the same text sent next is a direct hit with  *)
(* the nil bulk string; and a semantic hit whose filtered result has no    *)
(* rows is answered with the nil bulk string and counted as a semantic     *)
(* hit, and does not go on to the miss path.                               *)
(***************************************************************************)
C25_EmptyResults ==
    [][/\ \A c \in Conns :
            /\ (MissFillStep(c) /\ found[c].Rows = <<>>) =>
                  /\ NilAnswer(wire', "miss")
                  /\ sql[c] \in DOMAIN lookup'
                  /\ entries'[1] = lookup'[sql[c]]
                  /\ heap'[entries'[1]].Results.Rows = <<>>
                  /\ heap'[entries'[1]].Query = Parse(sql[c])
            /\ (SemanticAnswerStep(c) /\ found[c].Rows = <<>>) =>
                  /\ NilAnswer(wire', "semantic")
                  /\ semanticHits' = semanticHits + 1
                  /\ UNCHANGED <<totalQueries, directHits, cacheMisses>>
            /\ pc[c] = "semantic" => pc'[c] \in {"semantic", "idle"}
       /\ ( /\ Len(log) = 1
            /\ Len(log') = 2
            /\ NilAnswer(log'[1], "miss")
            /\ log'[2].sql = log'[1].sql ) =>
                  /\ NilAnswer(log'[2], "direct")
                  /\ directHits' = 1]_vars

C25_Witness ==
    /\ load = "pair"
    /\ Len(log) = 2
    /\ NilAnswer(log[1], "miss")
    /\ NilAnswer(log[2], "direct")
    /\ Len(entries) = 1
    /\ ListEntry(1).Results.Rows = <<>>

\* the step in which connection c starts a request: IncrementTotalQueries,
\* then either an error answer or the probe of the index
StartStep(c) ==
    /\ pc[c] = "idle"
    /\ \/ pc'[c] = "get"
       \/ wire'.conn = c /\ wire'.kind = "error"

\* requests that are counted in totalQueries and in no category yet
Unclassified == {c \in Conns : pc[c] \in {"get", "find", "scan", "semantic", "miss"}}

(***************************************************************************)
(* C26 No lost counter updates: in every interleaving, each step that      *)
(* starts a request adds exactly one to totalQueries, each step that       *)
(* serves a request in a category adds exactly one to that category's      *)
(* counter, and no other step changes a counter; so when the k requests    *)
(* of the concurrent workload have completed totalQueries is k and the     *)
(* three category counters add up to it.                                   *)
(***************************************************************************)
C26_NoLostUpdates ==
    [][/\ totalQueries' = totalQueries
             + (IF \E c \in Conns : StartStep(c) THEN 1 ELSE 0)
       /\ directHits' = directHits + Took("get", "render")
       /\ semanticHits' = semanticHits + Took("semantic", "idle")
       /\ cacheMisses' = cacheMisses + Took("miss", "exec")
       /\ load = "conc" =>
             totalQueries' = directHits' + semanticHits' + cacheMisses'
                                + Cardinality(Unclassified')]_vars

\* two requests for the same text were in flight together and both missed
C26_Witness ==
    /\ load = "conc"
    /\ Quiescent
    /\ totalQueries = 3
    /\ cacheMisses = 2
    /\ semanticHits = 1
    /\ Len(entries) = 1

\* the kinds of answer HandleSQL writes
AnswerKinds == {"direct", "semantic", "miss", "error"}

C28_NoDuplicates ==
    /\ \A j, k \in DOMAIN entries :
          j # k => ListEntry(j).Query.OriginalString
                      # ListEntry(k).Query.OriginalString
    /\ \A t \in DOMAIN lookup : \E k \in DOMAIN entries : entries[k] = lookup[t]
    /\ \A t, u \in DOMAIN lookup : t # u => lookup[t] # lookup[u]

\* b is a neighbour of a in the store
Adjacent(a, b) == a \in DOMAIN GraphStore /\ b \in GraphStore[a]

\* the latest step answered the read cmd on some connection
GraphRead(w, cmd) == w.kind = "graph" /\ w.sql # <<>> /\ w.sql[1] = cmd

(***************************************************************************)
(* C29 The adjacency store is symmetric: after InitGraphDB and after any   *)
(* G.ADDEDGE requests of the connections, b is a neighbour of a exactly    *)
(* when a is a neighbour of b; and a step that answers G.GETFRIENDS or     *)
(* G.FOF leaves the store as it was.                                       *)
(***************************************************************************)
C29_Symmetric ==
    /\ [](\A a, b \in DOMAIN GraphStore \cup UNION Range(GraphStore) :
             Adjacent(a, b) <=> Adjacent(b, a))
    /\ [][(GraphRead(wire', "G.GETFRIENDS") \/ GraphRead(wire', "G.FOF"))
             => GraphStore' = GraphStore]_vars

C29_Witness ==
    /\ Adjacent("Zed", "Alice")
    /\ Adjacent("Eve", "Eve")
    /\ GraphRead(wire, "G.GETFRIENDS")

\* the nodes at distance two of s: not s, not a neighbour of s, and a
\* neighbour of a neighbour of s
DistanceTwo(s) ==
    {t \in DOMAIN GraphStore :
        /\ t # s
        /\ ~Adjacent(s, t)
        /\ \E f \in DOMAIN GraphStore : Adjacent(s, f) /\ Adjacent(f, t)}

(***************************************************************************)
(* C30 G.FOF for a node s answers with an array that holds, once each,     *)
(* exactly the nodes at distance two of s, and with the empty array when   *)
(* s is not a node of the store.                                           *)
(***************************************************************************)
C30_FriendsOfFriends ==
    [][(GraphRead(wire', "G.FOF") /\ Len(wire'.sql) = 2) =>
          /\ wire'.resp.kind = "array"
          /\ Range(wire'.resp.lines) = DistanceTwo(wire'.sql[2])
          /\ Len(wire'.resp.lines) = Cardinality(DistanceTwo(wire'.sql[2]))
          /\ wire'.resp.count = Len(wire'.resp.lines)
          /\ wire'.sql[2] \notin DOMAIN GraphStore => wire'.resp.lines = <<>>]_vars

C30_Witness ==
    /\ GraphRead(wire, "G.FOF")
    /\ wire.sql = <<"G.FOF", "Alice">>
    /\ Adjacent("Alice", "Zed")
    /\ Adjacent("Alice", "Alice")
    /\ Range(wire.resp.lines) = {"David", "Eve"}

=============================================================================
